---- MODULE Spec2Model ----
(***************************************************************************)
(* Model of Code/GUI/BetterLabeledCheckbox.py: a checkbox combined with a  *)
(* label.  The constructor builds a BetterCheckbox and a                   *)
(* BetterOnscreenText and binds two hover handlers on the checkbox's node; *)
(* the handlers recolour the label; two getters expose the children.       *)
(*                                                                         *)
(* Colour components are held in tenths (5 is 0.5, 10 is 1.0).             *)
(* References are object identities: a list object is named by its index   *)
(* in the heap of lists, the two child widgets by their identity strings.  *)
(***************************************************************************)
EXTENDS Integers, Sequences, FiniteSets, TLC

VARIABLES lists, other, call, self, objs, log, raised, lastEvent, ret

vars == <<lists, other, call, self, objs, log, raised, lastEvent, ret>>

(* ---------------------------------------------------------------- bounds *)
MaxCoord == 1
MaxSize == 4

(* ------------------------------------------------------ Python constants *)
\* None as a list reference (chb_args)
NoneRef == 0
\* None as a widget reference (self._checkbox, self._text before assignment)
NoneObj == "None"
\* None as a colour argument
NoneColor == <<>>
\* defaults of the signature
DefaultTextSize == 18
DefaultExpandWidth == 100
\* offsets of the label relative to the checkbox
LabelXOffset == 26
LabelYBase == 10
SizeDivisor == 4

\* DGG.WITHIN / DGG.WITHOUT
WITHIN == "within"
WITHOUT == "without"

\* identities of the two child objects of the widget
ChbId == "BetterCheckbox"
TxtId == "BetterOnscreenText"

\* the defaults, with the checkbox unchecked
DefaultsUnchecked ==
    [parent |-> "None", x |-> 0, y |-> 0, chb_callback |-> "None",
     chb_args |-> NoneRef, chb_checked |-> FALSE, text |-> "",
     text_size |-> DefaultTextSize, radio |-> FALSE,
     text_color |-> NoneColor, expand_width |-> DefaultExpandWidth]

\* the signature's defaults
Defaults ==
    [parent |-> "None", x |-> 0, y |-> 0, chb_callback |-> "None",
     chb_args |-> NoneRef, chb_checked |-> TRUE, text |-> "",
     text_size |-> DefaultTextSize, radio |-> FALSE,
     text_color |-> NoneColor, expand_width |-> DefaultExpandWidth]

(* ---------------------------------------------------------------- inputs *)
\* list objects owned by the caller: an empty list and a non-empty one
CallerLists == << <<>>, <<"a">> >>

Coords == (0 - MaxCoord)..MaxCoord
Sizes == ((0 - MaxSize)..MaxSize) \cup {DefaultTextSize}
Colors == {NoneColor, <<10, 10, 10>>, <<5, 5, 5>>, <<4, 4, 4>>, <<0, 0, 10>>}
ArgRefs == {NoneRef} \cup (1..Len(CallerLists))
\* arguments that are only handed on to the primitives
Forwarded ==
    {[parent |-> "None", chb_callback |-> "None", text |-> "",
      expand_width |-> DefaultExpandWidth],
     [parent |-> "pane", chb_callback |-> "cb", text |-> "Enable",
      expand_width |-> 50]}
\* which primitive, if any, fails to construct
Failures == {"none", "checkbox", "label"}

Args ==
    {[parent |-> f.parent, x |-> x, y |-> y, chb_callback |-> f.chb_callback,
      chb_args |-> l, chb_checked |-> c, text |-> f.text, text_size |-> t,
      radio |-> r, text_color |-> col, expand_width |-> f.expand_width] :
        f \in Forwarded, x \in Coords, y \in Coords, l \in ArgRefs,
        c \in BOOLEAN, t \in Sizes, r \in BOOLEAN, col \in Colors}

(* ------------------------------------------------------- pure operations *)
\* division rounding toward zero
TruncDiv(a, b) == IF a >= 0 THEN a \div b ELSE 0 - ((0 - a) \div b)

\* Python's a // b on integers: the quotient rounded toward minus infinity
PyFloorDiv(a, b) == a \div b

\* Vec3(v): all three components set to v
Vec3(v) == <<v, v, v>>

\* a default list made once and shared by every call that passes None
NormalizeChbArgsShared(chb_args, heapLists) ==
    IF chb_args = NoneRef
    THEN IF Len(heapLists) > Len(CallerLists)
         THEN [ref |-> Len(CallerLists) + 1, lists |-> heapLists]
         ELSE [ref |-> Len(heapLists) + 1, lists |-> Append(heapLists, <<>>)]
    ELSE [ref |-> chb_args, lists |-> heapLists]

\* "if chb_args is None: chb_args = []": a list display makes a new object
NormalizeChbArgs(chb_args, heapLists) ==
    IF chb_args = NoneRef
    THEN [ref |-> Len(heapLists) + 1, lists |-> Append(heapLists, <<>>)]
    ELSE [ref |-> chb_args, lists |-> heapLists]

\* None replaced by black
NormalizeTextColorBlack(text_color) ==
    IF text_color = NoneColor THEN Vec3(0) ELSE text_color

\* "if text_color is None: text_color = Vec3(1)"
NormalizeTextColor(text_color) ==
    IF text_color = NoneColor THEN Vec3(10) ELSE text_color

\* position handed to the label
LabelX(x) == x + LabelXOffset
LabelY(y, text_size) == y + LabelYBase + PyFloorDiv(text_size, SizeDivisor)

\* the foreground colour BetterOnscreenText gives its node: the colour, opaque
OnscreenTextFg(color) == <<color[1], color[2], color[3], 10>>

\* BetterCheckbox(parent=..., x=..., ...): the object as created
BetterCheckbox(a, extra_args) ==
    [parent |-> a.parent, x |-> a.x, y |-> a.y, callback |-> a.chb_callback,
     extra_args |-> extra_args, checked |-> a.chb_checked, radio |-> a.radio,
     expand_width |-> a.expand_width,
     bind |-> [e \in {WITHIN, WITHOUT} |-> "None"]]

\* BetterOnscreenText(x=..., y=..., ...): the object as created
BetterOnscreenText(a, color) ==
    [x |-> LabelX(a.x), y |-> LabelY(a.y, a.text_size), text |-> a.text,
     align |-> "left", parent |-> a.parent, size |-> a.text_size,
     color |-> color, may_change |-> TRUE, fg |-> OnscreenTextFg(color)]

\* the handlers bound before the label exists
ConstructionOrderBindFirst ==
    <<"BetterCheckbox", "bind WITHIN", "bind WITHOUT", "BetterOnscreenText">>

\* the statements of __init__ after the normalisation, in program order
ConstructionOrder ==
    <<"BetterCheckbox", "BetterOnscreenText", "bind WITHIN", "bind WITHOUT">>

\* the two handlers exchanged
BoundHandlerSwapped(ev) ==
    IF ev = WITHIN THEN "_on_node_leave" ELSE "_on_node_enter"

\* the handler each bind statement registers
BoundHandler(ev) ==
    IF ev = WITHIN THEN "_on_node_enter" ELSE "_on_node_leave"

\* one statement of __init__ applied to the construction state s
ConstructionStep(s, stmt, a, fail) ==
    LET done == [s EXCEPT !.log = Append(s.log, stmt)] IN
    CASE stmt = "BetterCheckbox" ->
           IF fail = "checkbox"
           THEN [done EXCEPT !.raised = "CheckboxError"]
           ELSE [done EXCEPT
                   !.objs = (ChbId :> BetterCheckbox(a, s.extra_args)) @@ s.objs,
                   !.self = [s.self EXCEPT !.checkbox = ChbId]]
      [] stmt = "BetterOnscreenText" ->
           IF fail = "label"
           THEN [done EXCEPT !.raised = "LabelError"]
           ELSE [done EXCEPT
                   !.objs = (TxtId :> BetterOnscreenText(a, s.color)) @@ s.objs,
                   !.self = [s.self EXCEPT !.text = TxtId]]
      [] OTHER ->
           LET ev == IF stmt = "bind WITHIN" THEN WITHIN ELSE WITHOUT IN
           IF s.self.checkbox = NoneObj
           THEN [done EXCEPT !.raised = "AttributeError"]
           ELSE [done EXCEPT
                   !.objs = [s.objs EXCEPT
                               ![ChbId].bind[ev] = BoundHandler(ev)]]

RECURSIVE RunConstruction(_, _, _, _)
RunConstruction(s, stmts, a, fail) ==
    IF stmts = <<>> \/ s.raised # "None"
    THEN s
    ELSE RunConstruction(ConstructionStep(s, Head(stmts), a, fail),
                         Tail(stmts), a, fail)

\* BetterLabeledCheckbox.__init__ as a whole
BetterLabeledCheckboxInit(a, fail, heapLists) ==
    LET norm == NormalizeChbArgs(a.chb_args, heapLists)
        start == [self |-> [checkbox |-> NoneObj, text |-> NoneObj],
                  objs |-> <<>>, lists |-> norm.lists,
                  extra_args |-> norm.ref,
                  color |-> NormalizeTextColor(a.text_color),
                  log |-> <<>>, raised |-> "None"]
    IN RunConstruction(start, ConstructionOrder, a, fail)

\* the colours the handlers write
HoverEnterFg == <<5, 5, 5, 10>>
\* the enter colour written on leave as well
HoverLeaveFgAsEnter == <<5, 5, 5, 10>>
HoverLeaveFg == <<4, 4, 4, 10>>

\* a hover that also toggles the checkbox
OnNodeEnterToggle(sf, heap) ==
    [heap EXCEPT ![sf.text].fg = HoverEnterFg,
                 ![sf.checkbox].checked = ~heap[sf.checkbox].checked]

\* _on_node_enter: self._text._node["fg"] = (0.5, 0.5, 0.5, 1.0)
OnNodeEnter(sf, heap) == [heap EXCEPT ![sf.text].fg = HoverEnterFg]

\* a leave that puts the configured colour back
OnNodeLeaveRestore(sf, heap) ==
    [heap EXCEPT ![sf.text].fg = OnscreenTextFg(heap[sf.text].color)]

\* _on_node_leave: self._text._node["fg"] = (0.4, 0.4, 0.4, 1.0)
OnNodeLeave(sf, heap) == [heap EXCEPT ![sf.text].fg = HoverLeaveFg]

\* get_checkbox
GetCheckboxResult(sf) == sf.checkbox

\* get_label handing out the checkbox
GetLabelResultWrongField(sf) == sf.checkbox

\* get_label
GetLabelResult(sf) == sf.text

(* ----------------------------------------------------------------- state *)
NoCall == <<>>
NoRet == [fn |-> "None", ref |-> NoneObj]
Unbuilt == 0 - 1

Init ==
    /\ lists = CallerLists
    /\ other = Unbuilt
    /\ call = NoCall
    /\ self = [checkbox |-> NoneObj, text |-> NoneObj]
    /\ objs = <<>>
    /\ log = <<>>
    /\ raised = "None"
    /\ lastEvent = "None"
    /\ ret = NoRet

\* BetterLabeledCheckbox(...) for the widget under study
Construct ==
    /\ call = NoCall
    /\ \E a \in Args \cup {Defaults}, fail \in Failures :
         LET r == BetterLabeledCheckboxInit(a, fail, lists) IN
         /\ call' = <<a, fail>>
         /\ lists' = r.lists
         /\ self' = r.self
         /\ objs' = r.objs
         /\ log' = r.log
         /\ raised' = r.raised
    /\ UNCHANGED <<other, lastEvent, ret>>

\* a second instance of the class, of which only the list handed to its
\* checkbox is followed
ConstructOther ==
    /\ other = Unbuilt
    /\ \E l \in ArgRefs :
         LET norm == NormalizeChbArgs(l, lists) IN
         /\ other' = norm.ref
         /\ lists' = norm.lists
    /\ UNCHANGED <<call, self, objs, log, raised, lastEvent, ret>>

\* the widget was handed to the caller: __init__ returned normally
Built == call # NoCall /\ raised = "None"

\* the host dispatches event ev on the checkbox's node
Dispatch(ev) ==
    /\ Built
    /\ objs[ChbId].bind[ev] # "None"
    /\ objs' = IF objs[ChbId].bind[ev] = "_on_node_enter"
               THEN OnNodeEnter(self, objs)
               ELSE OnNodeLeave(self, objs)
    /\ lastEvent' = ev
    /\ UNCHANGED <<lists, other, call, self, log, raised, ret>>

HoverEnter == Dispatch(WITHIN)
HoverLeave == Dispatch(WITHOUT)

GetCheckbox ==
    /\ Built
    /\ ret' = [fn |-> "get_checkbox", ref |-> GetCheckboxResult(self)]
    /\ UNCHANGED <<lists, other, call, self, objs, log, raised, lastEvent>>

GetLabel ==
    /\ Built
    /\ ret' = [fn |-> "get_label", ref |-> GetLabelResult(self)]
    /\ UNCHANGED <<lists, other, call, self, objs, log, raised, lastEvent>>

Next ==
    \/ Construct
    \/ ConstructOther
    \/ HoverEnter
    \/ HoverLeave
    \/ GetCheckbox
    \/ GetLabel

Spec == Init /\ [][Next]_vars

(* ------------------------------------------------------------ properties *)
Called == call # NoCall
CallArgs == call[1]
CallFail == call[2]
HasCheckbox == ChbId \in DOMAIN objs
HasLabel == TxtId \in DOMAIN objs

\* the integer q with 4q <= t < 4q + 4: t / 4 rounded toward minus infinity
FloorQuarter(t) ==
    CHOOSE q \in (0 - 4 * (MaxSize + DefaultTextSize))..(4 * (MaxSize + DefaultTextSize)) :
        4 * q <= t /\ t < 4 * q + 4

\* the children with the checkbox's list reference replaced by the list's
\* contents, so that two constructions can be compared up to list identity
Contents(ref, heapLists) ==
    IF ref \in 1..Len(heapLists) THEN <<"list", heapLists[ref]>> ELSE <<"None">>

ChildrenView(heap, heapLists) ==
    [k \in DOMAIN heap |->
        IF k = ChbId
        THEN [heap[k] EXCEPT !.extra_args = Contents(@, heapLists)]
        ELSE heap[k]]

ResultView(r) ==
    [self |-> r.self, objs |-> ChildrenView(r.objs, r.lists),
     log |-> r.log, raised |-> r.raised]

CurrentView ==
    [self |-> self, objs |-> ChildrenView(objs, lists),
     log |-> log, raised |-> raised]

\* C1: whenever the label has been created, it lies at x + 26 and
\* y + 10 + floor(text_size / 4) for the x, y, text_size of the call (floor
\* toward minus infinity), and the checkbox was created at exactly (x, y).
C1_LabelOffset ==
    (Called /\ HasLabel) =>
        /\ objs[TxtId].x = CallArgs.x + 26
        /\ objs[TxtId].y = CallArgs.y + 10 + FloorQuarter(CallArgs.text_size)
        /\ objs[TxtId].x - objs[ChbId].x = 26
        /\ objs[TxtId].y - objs[ChbId].y = 10 + FloorQuarter(CallArgs.text_size)
        /\ objs[ChbId].x = CallArgs.x
        /\ objs[ChbId].y = CallArgs.y

C1_Witness ==
    /\ Called /\ HasLabel
    /\ CallArgs.text_size = 0 - 3
    /\ CallArgs.x = 0 - 1
    /\ objs[TxtId].y = CallArgs.y + 9

\* C2 as written: a construction with every argument defaulted gives a
\* checked checkbox at (0, 0) and a label with empty text, colour (1,1,1),
\* at position (0, 14).
C2_DefaultsLabelAtZero ==
    (Called /\ CallArgs = Defaults /\ raised = "None") =>
        /\ objs[ChbId].x = 0 /\ objs[ChbId].y = 0
        /\ objs[ChbId].checked = TRUE
        /\ objs[TxtId].text = ""
        /\ objs[TxtId].color = <<10, 10, 10>>
        /\ objs[TxtId].x = 0 /\ objs[TxtId].y = 14

\* C2 amended: a construction with every argument defaulted gives a checked
\* checkbox at (0, 0) and a label with empty text, colour (1,1,1), at
\* position (26, 14).
C2_Defaults ==
    (Called /\ CallArgs = Defaults /\ raised = "None") =>
        /\ objs[ChbId].x = 0 /\ objs[ChbId].y = 0
        /\ objs[ChbId].checked = TRUE
        /\ objs[TxtId].text = ""
        /\ objs[TxtId].color = <<10, 10, 10>>
        /\ objs[TxtId].x = 26 /\ objs[TxtId].y = 14

C2_Witness ==
    /\ Called /\ raised = "None"
    /\ CallArgs.parent = "None" /\ CallArgs.x = 0 /\ CallArgs.y = 0
    /\ CallArgs.chb_callback = "None" /\ CallArgs.chb_args = NoneRef
    /\ CallArgs.text = "" /\ CallArgs.text_size = 18 /\ ~CallArgs.radio
    /\ CallArgs.text_color = NoneColor /\ CallArgs.expand_width = 100
    /\ HasCheckbox /\ HasLabel

\* C3: after any pointer-enter event dispatched on the checkbox's node, and
\* until the next event, the label's foreground colour is (0.5, 0.5, 0.5, 1),
\* whatever colour was configured.
C3_EnterGray ==
    lastEvent = WITHIN => objs[TxtId].fg = <<5, 5, 5, 10>>

C3_Witness ==
    /\ lastEvent = WITHIN
    /\ CallArgs.text_color = <<0, 0, 10>>
    /\ objs[TxtId].fg = <<5, 5, 5, 10>>

\* C4: after any pointer-leave event dispatched on the checkbox's node, and
\* until the next event, the label's foreground colour is (0.4, 0.4, 0.4, 1),
\* whatever colour was configured.
C4_LeaveGray ==
    lastEvent = WITHOUT => objs[TxtId].fg = <<4, 4, 4, 10>>

C4_Witness ==
    /\ lastEvent = WITHOUT
    /\ CallArgs.text_color = NoneColor
    /\ objs[TxtId].fg = <<4, 4, 4, 10>>

\* C5: get_checkbox returns the checkbox object the constructor created and
\* get_label the label object it created, and the references the widget
\* holds stay those two for as long as the widget lives.
C5_GettersStable ==
    /\ ret.fn = "get_checkbox" => (ret.ref = ChbId /\ HasCheckbox)
    /\ ret.fn = "get_label" => (ret.ref = TxtId /\ HasLabel)
    /\ Built => self = [checkbox |-> ChbId, text |-> TxtId]

C5_Witness ==
    /\ ret.fn = "get_label" /\ ret.ref = TxtId
    /\ lastEvent = WITHOUT

\* C6: a construction with chb_args = None fails only where a primitive
\* fails, ends (before any event is dispatched) in the state a construction with an empty list would end in
\* (up to the identity of the list), and hands its checkbox a new empty list
\* that is neither a caller's list nor the list of the other instance.
C6_NoneArgsAsEmptyList ==
    (Called /\ CallArgs.chb_args = NoneRef) =>
        /\ CallFail = "none" => raised = "None"
        /\ lastEvent = "None" => CurrentView =
             ResultView(BetterLabeledCheckboxInit(
                 [CallArgs EXCEPT !.chb_args = 1], CallFail, CallerLists))
        /\ HasCheckbox =>
             /\ objs[ChbId].extra_args \in 1..Len(lists)
             /\ lists[objs[ChbId].extra_args] = <<>>
             /\ objs[ChbId].extra_args \notin 1..Len(CallerLists)
             /\ objs[ChbId].extra_args # other

C6_Witness ==
    /\ Called /\ CallArgs.chb_args = NoneRef /\ Built
    /\ other > Len(CallerLists)
    /\ objs[ChbId].extra_args > Len(CallerLists)

\* C7: a construction with text_color = None ends (before any event is
\* dispatched) in the state a
\* construction with text_color = (1,1,1) would end in, and its label has
\* colour (1,1,1).
C7_NoneColorAsWhite ==
    (Called /\ CallArgs.text_color = NoneColor) =>
        /\ lastEvent = "None" => CurrentView =
             ResultView(BetterLabeledCheckboxInit(
                 [CallArgs EXCEPT !.text_color = <<10, 10, 10>>], CallFail,
                 CallerLists))
        /\ HasLabel => objs[TxtId].color = <<10, 10, 10>>

C7_Witness ==
    /\ Called /\ CallArgs.text_color = NoneColor
    /\ HasLabel /\ objs[TxtId].color = <<10, 10, 10>>

\* C8: the constructor raises only what a primitive raised; when the
\* checkbox fails no label exists and nothing is bound, when the label
\* fails nothing is bound; the steps run in the order checkbox, label,
\* enter binding, leave binding.
C8_FailurePropagation ==
    Called =>
        /\ raised \in {"None", "CheckboxError", "LabelError"}
        /\ CallFail = "checkbox" =>
             /\ raised = "CheckboxError"
             /\ DOMAIN objs = {}
             /\ self = [checkbox |-> NoneObj, text |-> NoneObj]
             /\ log = <<"BetterCheckbox">>
        /\ CallFail = "label" =>
             /\ raised = "LabelError"
             /\ DOMAIN objs = {ChbId}
             /\ \A e \in {WITHIN, WITHOUT} : objs[ChbId].bind[e] = "None"
             /\ log = <<"BetterCheckbox", "BetterOnscreenText">>
        /\ CallFail = "none" =>
             /\ raised = "None"
             /\ objs[ChbId].bind[WITHIN] = "_on_node_enter"
             /\ objs[ChbId].bind[WITHOUT] = "_on_node_leave"
             /\ log = <<"BetterCheckbox", "BetterOnscreenText",
                        "bind WITHIN", "bind WITHOUT">>

C8_Witness ==
    /\ Called /\ CallFail = "label" /\ raised = "LabelError"
    /\ HasCheckbox /\ ~HasLabel

\* the configured colour as a foreground colour
ConfiguredFg == OnscreenTextFg(objs[TxtId].color)

\* C9 as written: the foreground colour equals the configured colour only
\* while no event has been dispatched; after an event it is the gray of the
\* most recent event.
C9_NeverConfiguredAfterEvent ==
    Built =>
        /\ lastEvent = "None" => objs[TxtId].fg = ConfiguredFg
        /\ objs[TxtId].fg = ConfiguredFg => lastEvent = "None"
        /\ lastEvent = WITHIN => objs[TxtId].fg = <<5, 5, 5, 10>>
        /\ lastEvent = WITHOUT => objs[TxtId].fg = <<4, 4, 4, 10>>

\* C9 amended: before any event the foreground colour is the configured
\* colour; after an event it is the gray of the most recent event, and it
\* equals the configured colour only when that colour is itself that gray.
C9_GrayOfLastEvent ==
    Built =>
        /\ lastEvent = "None" => objs[TxtId].fg = ConfiguredFg
        /\ lastEvent = WITHIN => objs[TxtId].fg = <<5, 5, 5, 10>>
        /\ lastEvent = WITHOUT => objs[TxtId].fg = <<4, 4, 4, 10>>
        /\ (lastEvent = WITHIN /\ objs[TxtId].fg = ConfiguredFg) =>
             objs[TxtId].color = <<5, 5, 5>>
        /\ (lastEvent = WITHOUT /\ objs[TxtId].fg = ConfiguredFg) =>
             objs[TxtId].color = <<4, 4, 4>>

C9_Witness ==
    /\ Built /\ lastEvent = WITHOUT
    /\ objs[TxtId].color = <<0, 0, 10>>
    /\ objs[TxtId].fg = <<4, 4, 4, 10>>

\* C10: a hover-enter or hover-leave step changes nothing but the label's
\* foreground colour: the checkbox (checked state, callback, extra
\* arguments, position, bindings), the rest of the label, the lists, the
\* widget's references and the getters' results stay as they were.
C10_HoverFrame ==
    [][(HoverEnter \/ HoverLeave) =>
         /\ DOMAIN objs' = DOMAIN objs
         /\ objs'[ChbId] = objs[ChbId]
         /\ [objs'[TxtId] EXCEPT !.fg = objs[TxtId].fg] = objs[TxtId]
         /\ self' = self
         /\ lists' = lists
         /\ other' = other
         /\ ret' = ret]_vars

C10_Witness ==
    /\ lastEvent = WITHIN
    /\ objs[ChbId].checked = FALSE
    /\ objs[ChbId].callback = "cb"
    /\ objs[TxtId].fg = <<5, 5, 5, 10>>

====
